---- MODULE Spec2Model ----
(***************************************************************************)
(* Model of two Nagios plugins of igmonplugins:                            *)
(*   check_systemd_services.py  (main, check_service, get_message)         *)
(*   check_linux_ulimit.py      (main, get_state and its /proc readers)    *)
(* Both scripts are Python 2 programs (str/bytes are one type, values of   *)
(* different types are ordered, an uncaught exception prints a traceback   *)
(* on stderr and ends the process with exit status 1).                     *)
(***************************************************************************)
EXTENDS Integers, Sequences, FiniteSets, TLC

VARIABLES
    \* ---- check_systemd_services.py ----
    systemctl,          \* environment: what running `command` will do
    critical_services,  \* the -s arguments
    pc,                 \* position in main
    output,             \* main: output.splitlines(), each line as its words
    i,                  \* main: number of lines the for loop has consumed
    service_name,       \* main: local
    problem,            \* main: local
    criticals,          \* main: local
    warnings,           \* main: local
    stdout,             \* what print wrote, as the pieces concatenated
    exit_code,          \* process exit status, NotExited while running
    exception,          \* the uncaught exception that ended the process
    \* ---- check_linux_ulimit.py ----
    proc,               \* environment: the /proc entries, in listing order
    uid,                \* environment: os.getuid()
    warning,            \* args.warning
    upc,                \* position in main/get_state
    k,                  \* get_state: number of pids the for loop has consumed
    state,              \* get_state / main: state
    msg,                \* get_state / main: msg, as the pieces appended
    ustdout,            \* what print wrote, as the pieces concatenated
    uexit,              \* process exit status
    uexception          \* the uncaught exception that ended the process

svars == <<systemctl, critical_services, pc, output, i, service_name, problem,
           criticals, warnings, stdout, exit_code, exception>>
uvars == <<proc, uid, warning, upc, k, state, msg, ustdout, uexit, uexception>>
vars == <<svars, uvars>>

----------------------------------------------------------------------------
(* Bounds of the model *)

MaxLines == 3

----------------------------------------------------------------------------
(* Python values *)

\* The value None of a variable that otherwise holds a Problem
None == -1

\* exit_code of a process that has not exited
NotExited == -1

\* Exit status of the interpreter after an uncaught exception
TracebackExit == 1

Min(a, b) == IF a < b THEN a ELSE b

\* ''.join(pieces)
RECURSIVE Concat(_)
Concat(pieces) ==
    IF pieces = <<>> THEN "" ELSE Head(pieces) \o Concat(Tail(pieces))

\* ' '.join(words)
RECURSIVE JoinWords(_)
JoinWords(words) ==
    IF words = <<>> THEN ""
    ELSE IF Len(words) = 1 THEN words[1]
    ELSE words[1] \o " " \o JoinWords(Tail(words))

----------------------------------------------------------------------------
(* check_systemd_services.py *)

\* class Problem
failed == 0
dead == 1
not_loaded_but_not_inactive == 2
not_loaded_but_not_dead == 3

\* Unit names of the model, in ascending order of Python's str comparison
UnitNames == <<"cron", "db", "ssh", "web">>

Names == {UnitNames[n] : n \in 1..Len(UnitNames)}

NameIndex(name) == CHOOSE n \in 1..Len(UnitNames) : UnitNames[n] = name

\* str.__lt__ on unit names
StrLess(a, b) == NameIndex(a) < NameIndex(b)

\* line.strip().split(None, 4) on a line given as its words: at most four
\* splits, the rest of the line stays one field
split_None_4(words) ==
    IF Len(words) <= 4 THEN words
    ELSE SubSeq(words, 1, 4) \o <<JoinWords(SubSeq(words, 5, Len(words)))>>

\* service_split[1:4]
Slice_1_4(service_split) == SubSeq(service_split, 2, Min(4, Len(service_split)))

\* check_service with `and` for the `or` of line 96
check_service_FailedNeedsBoth(serv_load, serv_active, serv_sub) ==
    IF serv_load = "loaded"
    THEN IF serv_active = "failed" /\ serv_sub = "failed" THEN failed
         ELSE IF serv_sub = "dead" THEN dead
         ELSE None
    ELSE IF serv_active # "inactive" THEN not_loaded_but_not_inactive
         ELSE IF serv_sub # "dead" THEN not_loaded_but_not_dead
         ELSE None

check_service(serv_load, serv_active, serv_sub) ==
    IF serv_load = "loaded"
    THEN IF serv_active = "failed" \/ serv_sub = "failed" THEN failed
         ELSE IF serv_sub = "dead" THEN dead
         ELSE None
    ELSE IF serv_active # "inactive" THEN not_loaded_but_not_inactive
         ELSE IF serv_sub # "dead" THEN not_loaded_but_not_dead
         ELSE None

\* problem_names of get_message: the attribute names of Problem with '_' -> ' '
problem_names(p) ==
    CASE p = failed -> "failed"
      [] p = dead -> "dead"
      [] p = not_loaded_but_not_inactive -> "not loaded but not inactive"
      [] p = not_loaded_but_not_dead -> "not loaded but not dead"

\* The loop body without the test of last_problem
MessagePieces_LabelEveryEntry(entry, last_problem) ==
    <<problem_names(entry[1]) \o ": ", entry[2] \o " ">>

\* The body of get_message's for loop, for one (problem, service) and the
\* last_problem before it: the strings it appends to message
MessagePieces(entry, last_problem) ==
    (IF entry[1] # last_problem THEN <<problem_names(entry[1]) \o ": ">> ELSE <<>>)
        \o <<entry[2] \o " ">>

RECURSIVE MessageLoop(_, _)
MessageLoop(problems, last_problem) ==
    IF problems = <<>> THEN <<>>
    ELSE MessagePieces(Head(problems), last_problem)
            \o MessageLoop(Tail(problems), Head(problems)[1])

get_message(problems) == MessageLoop(problems, None)

\* A comparison by the problem alone, as list.sort(key=...) would make
TupleLess_ProblemOnly(a, b) == a[1] < b[1]

\* tuple.__lt__ on (problem, service_name)
TupleLess(a, b) == a[1] < b[1] \/ (a[1] = b[1] /\ StrLess(a[2], b[2]))

\* list.sort(): stable, ascending by the elements' own comparison
RECURSIVE InsertSorted(_, _)
InsertSorted(e, sorted) ==
    IF sorted = <<>> THEN <<e>>
    ELSE IF TupleLess(e, Head(sorted)) THEN <<e>> \o sorted
    ELSE <<Head(sorted)>> \o InsertSorted(e, Tail(sorted))

RECURSIVE sort(_)
sort(list) ==
    IF list = <<>> THEN <<>>
    ELSE InsertSorted(list[Len(list)], sort(SubSeq(list, 1, Len(list) - 1)))

\* The loop body with every critical service's failure taken for a warning
Bucket_CriticalFailedAsWarning(name, prob, critical) ==
    IF prob # None
    THEN IF name \in critical
         THEN "warnings"
         ELSE IF prob # dead THEN "warnings" ELSE "none"
    ELSE "none"

\* The loop body with a plain else for `elif problem != Problem.dead`
Bucket_KeepDead(name, prob, critical) ==
    IF prob # None
    THEN IF name \in critical
         THEN IF prob = failed THEN "criticals" ELSE "warnings"
         ELSE "warnings"
    ELSE "none"

\* The loop body without the test `problem == Problem.failed`
Bucket_CriticalAlwaysCritical(name, prob, critical) ==
    IF prob # None
    THEN IF name \in critical
         THEN "criticals"
         ELSE IF prob # dead THEN "warnings" ELSE "none"
    ELSE "none"

\* The if/elif of main's loop body: which list the entry is appended to
Bucket(name, prob, critical) ==
    IF prob # None
    THEN IF name \in critical
         THEN IF prob = failed THEN "criticals" ELSE "warnings"
         ELSE IF prob # dead THEN "warnings" ELSE "none"
    ELSE "none"

\* str(error) of the CalledProcessError
ErrorText(status) ==
    "Command '['systemctl', '--all', '--no-legend', '--no-pager', 'list-units']'"
        \o " returned non-zero exit status " \o ToString(status)

\* try: output = subprocess.check_output(command.split())
CallAdapter ==
    /\ pc = "call"
    /\ CASE systemctl.outcome = "ok" ->
              /\ output' = systemctl.lines
              /\ pc' = "loop"
              /\ UNCHANGED <<stdout, exit_code, exception>>
         [] systemctl.outcome = "CalledProcessError" ->
              /\ stdout' = <<"UNKNOWN: ", ErrorText(systemctl.status)>>
              /\ exit_code' = 3
              /\ pc' = "done"
              /\ UNCHANGED <<output, exception>>
         [] systemctl.outcome = "OSError" ->
              \* only CalledProcessError is caught
              /\ exception' = "OSError"
              /\ exit_code' = TracebackExit
              /\ pc' = "done"
              /\ UNCHANGED <<output, stdout>>
    /\ UNCHANGED <<systemctl, critical_services, i, service_name, problem,
                   criticals, warnings>>
    /\ UNCHANGED uvars

\* One pass of `for line in output.splitlines()`
LoopLine ==
    /\ pc = "loop"
    /\ i < Len(output)
    /\ LET service_split == split_None_4(output[i + 1])
           args == Slice_1_4(service_split)
       IN IF service_split = <<>>
          THEN \* service_split[0]
               /\ exception' = "IndexError"
               /\ exit_code' = TracebackExit
               /\ pc' = "done"
               /\ UNCHANGED <<i, service_name, problem, criticals, warnings>>
          ELSE IF Len(args) # 3
          THEN \* check_service() takes exactly 3 arguments
               /\ exception' = "TypeError"
               /\ exit_code' = TracebackExit
               /\ pc' = "done"
               /\ service_name' = service_split[1]
               /\ UNCHANGED <<i, problem, criticals, warnings>>
          ELSE LET name == service_split[1]
                   prob == check_service(args[1], args[2], args[3])
                   bucket == Bucket(name, prob, critical_services)
               IN /\ service_name' = name
                  /\ problem' = prob
                  /\ criticals' = IF bucket = "criticals"
                                  THEN Append(criticals, <<prob, name>>)
                                  ELSE criticals
                  /\ warnings' = IF bucket = "warnings"
                                 THEN Append(warnings, <<prob, name>>)
                                 ELSE warnings
                  /\ i' = i + 1
                  /\ UNCHANGED <<pc, exit_code, exception>>
    /\ UNCHANGED <<systemctl, critical_services, output, stdout>>
    /\ UNCHANGED uvars

\* criticals.sort(); warnings.sort()
SortLists ==
    /\ pc = "loop"
    /\ i = Len(output)
    /\ criticals' = sort(criticals)
    /\ warnings' = sort(warnings)
    /\ pc' = "report"
    /\ UNCHANGED <<systemctl, critical_services, output, i, service_name, problem,
                   stdout, exit_code, exception>>
    /\ UNCHANGED uvars

\* The final if/elif/else of main
Report ==
    /\ pc = "report"
    /\ IF criticals # <<>>
       THEN /\ stdout' = <<"CRITICAL: ">> \o get_message(criticals \o warnings)
            /\ exit_code' = 2
       ELSE IF warnings # <<>>
       THEN /\ stdout' = <<"WARNING: ">> \o get_message(warnings)
            /\ exit_code' = 1
       ELSE /\ stdout' = <<"OK">>
            /\ exit_code' = 0
    /\ pc' = "done"
    /\ UNCHANGED <<systemctl, critical_services, output, i, service_name, problem,
                   criticals, warnings, exception>>
    /\ UNCHANGED uvars

----------------------------------------------------------------------------
(* Inputs of check_systemd_services.py *)

\* The state columns of the listings of several units; the first has a
\* description of two words, the last is cut short
Columns ==
    { <<"loaded", "active", "running", "Regular", "daemon">>,
      <<"loaded", "failed", "failed">>,
      <<"loaded", "active", "dead">>,
      <<"not-found", "active", "running">>,
      <<"not-found", "inactive", "exited">>,
      <<"loaded", "failed">> }

\* The state strings of the listings of one unit
LoadStates == {"loaded", "not-found", "masked", "error"}
ActiveStates == {"active", "failed", "inactive", "activating", "reloading"}
SubStates == {"running", "failed", "dead", "exited", "waiting"}

Lines == {<<n>> \o c : n \in Names, c \in Columns} \cup {<<>>}

\* list-units prints a unit once
DistinctNames(lines) ==
    \A a, b \in 1..Len(lines) :
        (a # b /\ lines[a] # <<>> /\ lines[b] # <<>>) => lines[a][1] # lines[b][1]

\* At most one line of a listing is cut short or empty
OneShortLine(lines) ==
    Cardinality({j \in 1..Len(lines) : Len(lines[j]) < 4}) <= 1

Listings ==
    {l \in UNION {[1..n -> Lines] : n \in 0..MaxLines} :
        DistinctNames(l) /\ OneShortLine(l)}
    \cup {<< <<n, l, a, s>> >> : n \in {UnitNames[1]}, l \in LoadStates,
                                 a \in ActiveStates, s \in SubStates}

ExitStatuses == {1, 4}

Systemctl ==
    {[outcome |-> "ok", lines |-> l, status |-> 0] : l \in Listings}
    \cup {[outcome |-> "CalledProcessError", lines |-> <<>>, status |-> s] :
            s \in ExitStatuses}
    \cup {[outcome |-> "OSError", lines |-> <<>>, status |-> 0]}

SInit ==
    /\ systemctl \in Systemctl
    /\ critical_services \in SUBSET Names
    /\ pc = "call"
    /\ output = <<>>
    /\ i = 0
    /\ service_name = ""
    /\ problem = None
    /\ criticals = <<>>
    /\ warnings = <<>>
    /\ stdout = <<>>
    /\ exit_code = NotExited
    /\ exception = "none"

----------------------------------------------------------------------------
(* check_linux_ulimit.py *)

\* A Python int or str, tagged with its type
PyInt(n) == [t |-> "int", v |-> n]
PyStr(s) == [t |-> "str", v |-> s]

\* a > b of Python 2 for an int or str a and an int b: a str is greater
\* than every number
PyGreater(a, b) == IF a.t = "int" THEN a.v > b ELSE TRUE

\* a <= b of Python 2 for an int or str a and an int b
PyLessEq(a, b) == IF a.t = "int" THEN a.v <= b ELSE FALSE

\* a == b of Python 2 for an int or str a and an int b
PyEqual(a, b) == a.t = "int" /\ a.v = b

\* str.isdigit() on the names of the /proc entries of the model
isdigit(name) == name \in {"1", "2", "3"}

\* The lines of /proc/<pid>/limits, each as its words, of a process whose
\* soft nofile limit is nofile
LimitsFile(nofile) ==
    << <<"Limit", "Soft", "Limit", "Hard", "Limit", "Units">>,
       <<"Max", "cpu", "time", "unlimited", "unlimited", "seconds">>,
       <<"Max", "open", "files", ToString(nofile), ToString(nofile), "files">> >>

\* read_proc_db(pid, 'limits'): the lines; None, here the empty list (both
\* are false in `if limits`), when the file cannot be read
read_proc_db_limits(entry) ==
    IF entry.nofile = 0 THEN <<>> ELSE LimitsFile(entry.nofile)

\* line.startswith('Max open files') on a line given as its words
StartsWithMaxOpenFiles(line) ==
    Len(line) >= 3 /\ SubSeq(line, 1, 3) = <<"Max", "open", "files">>

RECURSIVE UlimitLoop(_)
UlimitLoop(limits) ==
    IF limits = <<>> THEN PyInt(0)
    ELSE IF StartsWithMaxOpenFiles(Head(limits)) THEN PyStr(Head(limits)[4])
    ELSE UlimitLoop(Tail(limits))

\* get_proc_ulimit(pid, 'Max open files')
get_proc_ulimit(entry) == UlimitLoop(read_proc_db_limits(entry))

\* get_proc_name(pid): cmdline is the list readlines() returned, and a
\* non-empty list is asked for its split, which no list has
get_proc_name(entry) ==
    IF entry.cmdline # <<>> THEN "AttributeError" ELSE "unknown"

\* pids = [pid for pid in list_proc_db() if pid.isdigit()]
pids == SelectSeq(proc, LAMBDA e : isdigit(e.name))

\* The start of main
UMain ==
    /\ upc = "main"
    /\ IF uid # 0
       THEN /\ state' = "unknown"
            /\ msg' = <<"I need to be run as root, really">>
            /\ ustdout' = msg'
            /\ uexit' = state'
            /\ upc' = "done"
       ELSE /\ state' = "unknown"
            /\ msg' = <<>>
            /\ upc' = "get_state"
            /\ UNCHANGED <<ustdout, uexit>>
    /\ UNCHANGED <<proc, uid, warning, k, uexception>>
    /\ UNCHANGED svars

\* One pass of `for pid in pids` in get_state
GetStateStep ==
    /\ upc = "get_state"
    /\ k < Len(pids)
    /\ LET entry == pids[k + 1]
           pid == entry.name
           num_fds == entry.fds
           soft_limit == get_proc_ulimit(entry)
       IN IF PyGreater(soft_limit, num_fds) \/ PyEqual(soft_limit, 0)
          THEN /\ state' = IF state \notin {"warning", "critical"} THEN "ok" ELSE state
               /\ UNCHANGED <<msg, uexception, uexit, upc>>
               /\ k' = k + 1
          ELSE IF PyLessEq(soft_limit, num_fds)
          THEN IF get_proc_name(entry) = "AttributeError"
               THEN /\ state' = "critical"
                    /\ uexception' = "AttributeError"
                    /\ uexit' = "traceback"
                    /\ upc' = "done"
                    /\ UNCHANGED <<msg, k>>
               ELSE /\ state' = "critical"
                    /\ msg' = Append(msg,
                            "PID " \o pid \o " [" \o get_proc_name(entry)
                            \o "] reached its soft limit (open: " \o ToString(num_fds)
                            \o ", limit " \o ToString(soft_limit.v) \o ")\n")
                    /\ k' = k + 1
                    /\ UNCHANGED <<uexception, uexit, upc>>
          ELSE IF soft_limit.t = "str"
          THEN \* (soft_limit * warning) is a str, and str / int raises
               /\ uexception' = "TypeError"
               /\ uexit' = "traceback"
               /\ upc' = "done"
               /\ UNCHANGED <<state, msg, k>>
          ELSE IF (soft_limit.v * warning) \div 100 <= num_fds
          THEN IF get_proc_name(entry) = "AttributeError"
               THEN /\ state' = IF state # "critical" THEN "warning" ELSE state
                    /\ uexception' = "AttributeError"
                    /\ uexit' = "traceback"
                    /\ upc' = "done"
                    /\ UNCHANGED <<msg, k>>
               ELSE /\ state' = IF state # "critical" THEN "warning" ELSE state
                    /\ msg' = Append(msg,
                            "PID " \o pid \o " [" \o get_proc_name(entry)
                            \o "] nearly reached its soft limit at "
                            \o ToString(num_fds) \o " open fds\n")
                    /\ k' = k + 1
                    /\ UNCHANGED <<uexception, uexit, upc>>
          ELSE /\ k' = k + 1
               /\ UNCHANGED <<state, msg, uexception, uexit, upc>>
    /\ UNCHANGED <<proc, uid, warning, ustdout>>
    /\ UNCHANGED svars

\* return state, msg; and the end of main
UFinish ==
    /\ upc = "get_state"
    /\ k = Len(pids)
    /\ msg' = IF state = "ok" THEN Append(msg, "OK") ELSE msg
    /\ ustdout' = msg'
    /\ uexit' = state
    /\ upc' = "done"
    /\ UNCHANGED <<proc, uid, warning, k, state, uexception>>
    /\ UNCHANGED svars

----------------------------------------------------------------------------
(* Inputs of check_linux_ulimit.py *)

MaxProcs == 2
MaxFds == 3
MaxNofile == 3

\* An entry of /proc: its name and, for a process, the number of entries of
\* its fd directory, its soft nofile limit (0: limits cannot be read) and
\* the lines of its cmdline
ProcEntries ==
    {[name |-> n, fds |-> f, nofile |-> l, cmdline |-> c] :
        n \in {"1", "2"}, f \in 0..MaxFds, l \in 0..MaxNofile,
        c \in {<<>>, <<"/sbin/init">>}}
    \cup {[name |-> "cpuinfo", fds |-> 0, nofile |-> 0, cmdline |-> <<>>]}

ProcListings ==
    {p \in UNION {[1..n -> ProcEntries] : n \in 0..MaxProcs} :
        \A a, b \in 1..Len(p) : a # b => p[a].name # p[b].name}

UInit ==
    /\ proc \in ProcListings
    /\ uid \in {0, 1000}
    /\ warning \in {60, 99}
    /\ upc = "main"
    /\ k = 0
    /\ state = "unknown"
    /\ msg = <<>>
    /\ ustdout = <<>>
    /\ uexit = "none"
    /\ uexception = "none"

SIdle ==
    /\ systemctl = [outcome |-> "ok", lines |-> <<>>, status |-> 0]
    /\ critical_services = {}
    /\ pc = "done"
    /\ output = <<>>
    /\ i = 0
    /\ service_name = ""
    /\ problem = None
    /\ criticals = <<>>
    /\ warnings = <<>>
    /\ stdout = <<>>
    /\ exit_code = NotExited
    /\ exception = "none"

UIdle ==
    /\ proc = <<>>
    /\ uid = 0
    /\ warning = 60
    /\ upc = "done"
    /\ k = 0
    /\ state = "unknown"
    /\ msg = <<>>
    /\ ustdout = <<>>
    /\ uexit = "none"
    /\ uexception = "none"

----------------------------------------------------------------------------
(* Properties of check_systemd_services.py *)

\* A line that holds a unit name and its three state strings
IsUnitRecord(line) == Len(line) >= 4

AllUnitRecords(lines) == \A j \in 1..Len(lines) : IsUnitRecord(lines[j])

\* What check_service makes of a unit record
ClassOf(line) == check_service(line[2], line[3], line[4])

IsCriticalFailed(line) ==
    IsUnitRecord(line) /\ line[1] \in critical_services /\ ClassOf(line) = failed

IsDroppedDead(line) ==
    IsUnitRecord(line) /\ line[1] \notin critical_services /\ ClassOf(line) = dead

IsHealthy(line) == IsUnitRecord(line) /\ ClassOf(line) = None

Elements(list) == {list[j] : j \in 1..Len(list)}

\* The run went through the listing and reported
Reported == pc = "done" /\ systemctl.outcome = "ok" /\ exception = "none"

\* The line of the listing that names the unit
LineOf(name) ==
    CHOOSE j \in 1..Len(output) : output[j] # <<>> /\ output[j][1] = name

\* C1: when the listing holds only unit records and one of them, named in
\* the critical set, is classified Failed, the run prints a line starting
\* with 'CRITICAL: ' and exits with code 2, whatever the other units are.
C1_CriticalFailedIsCritical ==
    ( /\ pc = "done"
      /\ systemctl.outcome = "ok"
      /\ AllUnitRecords(systemctl.lines)
      /\ \E j \in 1..Len(systemctl.lines) : IsCriticalFailed(systemctl.lines[j]) )
    => /\ exit_code = 2
       /\ stdout # <<>>
       /\ stdout[1] = "CRITICAL: "
       /\ exception = "none"

\* A CRITICAL run whose listing holds a failed critical unit, a unit that
\* only warrants a warning and a dropped one
C1_Witness ==
    /\ pc = "done"
    /\ exit_code = 2
    /\ Len(output) = 3
    /\ \E j \in 1..3 : IsCriticalFailed(output[j])
    /\ \E j \in 1..3 : IsDroppedDead(output[j])
    /\ \E j \in 1..3 : IsUnitRecord(output[j]) /\ <<ClassOf(output[j]), output[j][1]>> \in Elements(warnings)

\* The entries are in the order of the fixed category precedence
OrderedByCategory(list) ==
    \A a, b \in 1..Len(list) : a < b => list[a][1] <= list[b][1]

\* Entries of one category are in the order of their lines in the listing
TiesInListingOrder(list) ==
    \A a, b \in 1..Len(list) :
        (a < b /\ list[a][1] = list[b][1]) => LineOf(list[a][2]) < LineOf(list[b][2])

\* Entries of one category are in ascending order of their unit names
TiesInNameOrder(list) ==
    \A a, b \in 1..Len(list) :
        (a < b /\ list[a][1] = list[b][1]) => StrLess(list[a][2], list[b][2])

\* The entries the loop appends to a list, whatever their order
Collected(bucket) ==
    {<<ClassOf(output[j]), output[j][1]>> :
        j \in {n \in 1..Len(output) :
                  Bucket(output[n][1], ClassOf(output[n]), critical_services) = bucket}}

DecisionTable(loadState, activeState, subState) ==
    CASE loadState = "loaded" /\ (activeState = "failed" \/ subState = "failed")
            -> failed
      [] loadState = "loaded" /\ activeState # "failed" /\ subState = "dead"
            -> dead
      [] loadState = "loaded" /\ activeState # "failed" /\ subState \notin {"failed", "dead"}
            -> None
      [] loadState # "loaded" /\ activeState # "inactive"
            -> not_loaded_but_not_inactive
      [] loadState # "loaded" /\ activeState = "inactive" /\ subState # "dead"
            -> not_loaded_but_not_dead
      [] loadState # "loaded" /\ activeState = "inactive" /\ subState = "dead"
            -> None

\* C3: the problem check_service returned for the last unit record of the
\* loop is the one the decision table gives for its three state strings,
\* known or not, and it is a category or None.
C3_DecisionTable ==
    i >= 1
    => /\ problem = DecisionTable(output[i][2], output[i][3], output[i][4])
       /\ problem \in {None, failed, dead, not_loaded_but_not_inactive,
                       not_loaded_but_not_dead}

\* A classified unit whose three state strings are all unknown to the code
C3_Witness ==
    /\ i = 1
    /\ output[1][2] = "masked"
    /\ output[1][3] = "reloading"
    /\ output[1][4] = "waiting"
    /\ problem = not_loaded_but_not_inactive

\* The pieces of the printed line that are a unit name and its space
NamePiece(name) == name \o " "

\* C4: a unit classified Dead that is not in the critical set is in neither
\* list and its name is no part of the printed line; a listing whose only
\* problem units are such units yields exactly 'OK' and exit code 0.
C4_DeadNonCriticalDropped ==
    /\ \A j \in 1..i :
          IsDroppedDead(output[j])
          => /\ \A e \in Elements(criticals) \cup Elements(warnings) : e[2] # output[j][1]
             /\ \A n \in 1..Len(stdout) : stdout[n] # NamePiece(output[j][1])
    /\ ( /\ pc = "done"
         /\ systemctl.outcome = "ok"
         /\ \A j \in 1..Len(systemctl.lines) :
               IsHealthy(systemctl.lines[j]) \/ IsDroppedDead(systemctl.lines[j]) )
       => stdout = <<"OK">> /\ exit_code = 0

\* An OK run, with a critical set that is not empty, over a listing of two
\* Dead units outside it
C4_Witness ==
    /\ pc = "done"
    /\ exit_code = 0
    /\ stdout = <<"OK">>
    /\ critical_services # {}
    /\ Len(output) = 2
    /\ IsDroppedDead(output[1])
    /\ IsDroppedDead(output[2])

\* C5: a line with fewer than four fields ends the run with an
\* 'UNKNOWN: ...' line and exit code 3.
C5_ShortLineIsUnknown ==
    ( /\ pc = "done"
      /\ systemctl.outcome = "ok"
      /\ \E j \in 1..Len(systemctl.lines) : ~IsUnitRecord(systemctl.lines[j]) )
    => /\ exit_code = 3
       /\ stdout # <<>>
       /\ stdout[1] = "UNKNOWN: "

\* C6: when the listing command fails, by its exit status or by an I/O
\* error, the run prints 'UNKNOWN: <error text>', exits with code 3 and
\* classifies nothing.
C6_AdapterFailureIsUnknown ==
    (pc = "done" /\ systemctl.outcome # "ok")
    => /\ exit_code = 3
       /\ stdout # <<>>
       /\ stdout[1] = "UNKNOWN: "
       /\ i = 0 /\ criticals = <<>> /\ warnings = <<>>

\* The status words and their exit codes
VerdictCodes ==
    { <<"OK", 0>>, <<"WARNING: ", 1>>, <<"CRITICAL: ", 2>>, <<"UNKNOWN: ", 3>> }

\* C7: every run ends in one of the four verdicts, the printed status word
\* matching the exit code, and with no uncaught exception.
C7_VerdictMatchesExitCode ==
    pc = "done"
    => /\ exception = "none"
       /\ stdout # <<>>
       /\ <<stdout[1], exit_code>> \in VerdictCodes

\* C8: a critical unit that is Dead, NotLoadedButNotInactive or
\* NotLoadedButNotDead is in WARNINGS and not in CRITICALS, and so is a
\* Failed unit outside the critical set; a run that reports is CRITICAL
\* exactly when a critical unit is Failed, and WARNING when none is and
\* WARNINGS is not empty.
C8_OnlyCriticalFailedIsCritical ==
    /\ \A j \in 1..i :
          LET name == output[j][1]
              class == ClassOf(output[j])
          IN ( \/ (name \in critical_services /\ class \notin {None, failed})
               \/ (name \notin critical_services /\ class = failed) )
             => /\ <<class, name>> \in Elements(warnings)
                /\ <<class, name>> \notin Elements(criticals)
    /\ Reported
       => /\ exit_code = 2 <=> \E j \in 1..Len(output) : IsCriticalFailed(output[j])
          /\ ( /\ ~ \E j \in 1..Len(output) : IsCriticalFailed(output[j])
               /\ warnings # <<>> )
             => exit_code = 1 /\ stdout[1] = "WARNING: "

\* A WARNING run over a Dead critical unit and a Failed unit that is not
\* critical
C8_Witness ==
    /\ Reported
    /\ exit_code = 1
    /\ \E j \in 1..Len(output) :
          output[j][1] \in critical_services /\ ClassOf(output[j]) = dead
    /\ \E j \in 1..Len(output) :
          output[j][1] \notin critical_services /\ ClassOf(output[j]) = failed

\* The labels of the categories, from the most severe
Labels ==
    << "failed: ", "dead: ", "not loaded but not inactive: ",
       "not loaded but not dead: " >>

\* The names of the entries of a category, each with its space, in the
\* order of the list
NamesOf(list, category) ==
    LET Of(e) == e[1] = category
        members == SelectSeq(list, Of)
    IN [n \in 1..Len(members) |-> NamePiece(members[n][2])]

\* A category's part of the body: nothing when no entry has it, else its
\* label and its names, those of the critical entries first
Group(category) ==
    LET names == NamesOf(criticals, category) \o NamesOf(warnings, category)
    IN IF names = <<>> THEN <<>> ELSE <<Labels[category + 1]>> \o names

\* C10: the body printed after 'CRITICAL: ' (CRITICALS then WARNINGS) or
\* 'WARNING: ' (WARNINGS) labels each category that is present once, in
\* severity order, each label followed by the names of its entries, the
\* critical ones first, each name followed by one space.
C10_BodyGroupsByCategory ==
    (Reported /\ exit_code \in {1, 2})
    => /\ Tail(stdout) = Group(failed) \o Group(dead)
                            \o Group(not_loaded_but_not_inactive)
                            \o Group(not_loaded_but_not_dead)
       /\ \A c \in 1..Len(Labels) :
             Cardinality({n \in 1..Len(stdout) : stdout[n] = Labels[c]}) <= 1
       /\ exit_code = 1 => criticals = <<>>

\* A CRITICAL line whose 'failed: ' label covers a critical entry and a
\* warning entry with a smaller name, followed by a second category
C10_Witness ==
    /\ Reported
    /\ Concat(stdout) = "CRITICAL: failed: db cron not loaded but not inactive: web "

----------------------------------------------------------------------------
(* Properties of check_linux_ulimit.py *)

\* The processes of /proc whose limits can be read
Limited == {n \in 1..Len(pids) : pids[n].nofile # 0}

NearlyPiece(entry) ==
    "PID " \o entry.name \o " [unknown] nearly reached its soft limit at "
        \o ToString(entry.fds) \o " open fds\n"

\* C9: when get_state has returned, a process at or above warning percent
\* of its soft limit and below it has made the state at least WARNING and
\* is named in the message as nearly at its limit, and a process at or
\* above its soft limit has made the state CRITICAL.
C9_NearLimitWarns ==
    (upc = "done" /\ uid = 0 /\ uexception = "none")
    => \A n \in Limited :
          LET e == pids[n]
          IN /\ ((e.nofile * warning) \div 100 <= e.fds /\ e.fds < e.nofile)
                => /\ state \in {"warning", "critical"}
                   /\ \E m \in 1..Len(msg) : msg[m] = NearlyPiece(e)
             /\ e.fds >= e.nofile => state = "critical"

----------------------------------------------------------------------------
(* Specifications *)

Init == SInit /\ UIdle

Next == CallAdapter \/ LoopLine \/ SortLists \/ Report

Spec == Init /\ [][Next]_vars

InitUlimit == UInit /\ SIdle

NextUlimit == UMain \/ GetStateStep \/ UFinish

SpecUlimit == InitUlimit /\ [][NextUlimit]_vars

====
